---- MODULE Spec2Model ----
(***************************************************************************)
(* Model of pywalfox/daemon.py: the Daemon dispatcher, its three execution *)
(* contexts (main receive loop, command-server thread, watchdog observer   *)
(* thread) and the upstream channel (standard output) they all write to.   *)
(***************************************************************************)
EXTENDS Integers, Sequences, FiniteSets, TLC

\* ---------------------------------------------------------------- bounds
MaxMessages == 1   \* upstream messages delivered to the main loop
MaxCommands == 1   \* commands delivered to the command-server thread
MaxEvents   == 1   \* file-modification events delivered to the observer
MaxCloses   == 2   \* calls of Daemon.close

\* ------------------------------------------------------------- vocabulary
None == "None"

\* config.ACTIONS (the name ACTIONS is reserved in TLA+)
Actions ==
  [ VERSION        |-> "version-query",
    COLORS         |-> "colors-query",
    CSS_ENABLE     |-> "css-enable",
    CSS_DISABLE    |-> "css-disable",
    CSS_FONT_SIZE  |-> "css-font-size",
    THEME_MODE     |-> "theme-mode",
    OUTPUT         |-> "output",
    INVALID_ACTION |-> "invalid-action" ]

COMMANDS ==
  [ UPDATE           |-> "update",
    THEME_MODE_DARK  |-> "theme-dark",
    THEME_MODE_LIGHT |-> "theme-light",
    THEME_MODE_AUTO  |-> "theme-auto" ]

DAEMON_VERSION == "daemon-version"

DEFAULT_SUCCESS == TRUE

\* Message(action, data=None, success=True, message=None)
Message(action, data, success, message) ==
  [action |-> action, data |-> data, success |-> success, message |-> message]

\* ------------------------------------------------------------ input sets
ActionValues == {Actions[k] : k \in DOMAIN Actions}
TargetValues == {"", "foo.css"}
SizeValues   == {"13"}
CommandValues == {COMMANDS[k] : k \in DOMAIN COMMANDS} \cup {"bogus-command"}

Keys == {"action", "target", "size"}

KeyValues(k) ==
  CASE k = "action" -> ActionValues
    [] k = "target" -> TargetValues
    [] k = "size"   -> SizeValues

\* decoded upstream messages: JSON objects over a subset of the keys
InMessages ==
  UNION { {m \in [K -> ActionValues \cup TargetValues \cup SizeValues] :
             \A k \in K : m[k] \in KeyValues(k)} : K \in SUBSET Keys }

\* results the collaborators can return
PywalResults == { <<TRUE, "palette", None>>, <<FALSE, None, "no colors file">> }
CssResults   == { <<TRUE, "css done">>, <<FALSE, "css failed">> }
ChromePaths  == { "", "/profile/chrome" }

\* len() of the strings of the input alphabet
len(s) == CASE s = "" -> 0 [] s = "foo.css" -> 7 [] OTHER -> 1

Contexts == {"main", "socket", "observer"}

VARIABLES
  chrome_path,        \* Daemon.chrome_path ("" when not found)
  is_running,         \* Daemon.is_running
  pc,                 \* position of each execution context
  message,            \* local `message` of Daemon.start (last upstream message)
  command,            \* local `message` of socket_thread_worker (last command)
  outbox,             \* per context: send_message calls still to perform
  sent,               \* per context: send_message calls completed in this handling
  calls,              \* per context: collaborator calls made in this handling
  lock,               \* holder of the messenger's send lock
  stdout_writers,     \* the calls that have written to the process's standard output
  upstream,           \* the peer's decoder of the standard-output stream
  nsends,             \* completed send_message calls
  local_out,          \* replies written to the local command channel
  server_state,       \* socket_server: new / listening / failed / closed
  observer_state,     \* observer: new / started / stopped
  server_closes,      \* number of socket_server.close() calls
  observer_stops,     \* number of observer.stop() calls
  disconnected,       \* the upstream peer has closed the channel
  after_stop,         \* upstream messages dispatched while is_running was false
  nmsg, ncmd, nev, ncloses

vars == << chrome_path, is_running, pc, message, command, outbox, sent, calls,
           lock, stdout_writers, upstream, nsends, local_out, server_state,
           observer_state, server_closes, observer_stops, disconnected,
           after_stop, nmsg, ncmd, nev, ncloses >>

\* ------------------------------------------------------------ dispatcher
\* what one handler does: the messages it passes to messenger.send_message,
\* in order, and the collaborator calls it makes
Eff(out, cs) == [out |-> out, calls |-> cs]
NoEff == Eff(<<>>, <<>>)

Call(fn, target, size, ret) == [fn |-> fn, target |-> target, size |-> size, ret |-> ret]

send_invalid_action ==
  Eff(<<Message(Actions.INVALID_ACTION, None, FALSE, None)>>, <<>>)

send_version ==
  Eff(<<Message(Actions.VERSION, DAEMON_VERSION, DEFAULT_SUCCESS, None)>>, <<>>)

\* mutant: the reply reports success whatever get_pywal_colors returned
send_pywal_colors_always_ok(pyw) ==
  Eff(<<Message(Actions.COLORS, pyw[2], TRUE, pyw[3])>>,
      <<Call("get_pywal_colors", None, None, pyw)>>)

send_pywal_colors(pyw) ==
  Eff(<<Message(Actions.COLORS, pyw[2], pyw[1], pyw[3])>>,
      <<Call("get_pywal_colors", None, None, pyw)>>)

send_theme_mode(mode) ==
  Eff(<<Message(Actions.THEME_MODE, mode, DEFAULT_SUCCESS, None)>>, <<>>)

\* mutant: the chrome path is never checked
check_chrome_path_unchecked(chrome, action, target) ==
  [ret |-> TRUE, eff |-> NoEff]

check_chrome_path(chrome, action, target) ==
  IF chrome = ""
    THEN [ret |-> FALSE,
          eff |-> Eff(<<Message(action, target, FALSE,
                                "Could not find path to chrome folder")>>, <<>>)]
    ELSE [ret |-> TRUE, eff |-> NoEff]

\* mutant: an empty target is accepted
check_target_accepts_empty(m) ==
  IF "target" \in DOMAIN m
    THEN [ret |-> TRUE, target |-> m["target"], eff |-> NoEff]
    ELSE [ret |-> FALSE, target |-> None, eff |-> send_invalid_action]

check_target(m) ==
  IF "target" \in DOMAIN m /\ len(m["target"]) > 0
    THEN [ret |-> TRUE, target |-> m["target"], eff |-> NoEff]
    ELSE [ret |-> FALSE, target |-> None, eff |-> send_invalid_action]

\* mutant: the reply reports success whatever enable_custom_css returned
send_enable_css_response_always_ok(m, chrome, css) ==
  LET action == Actions.CSS_ENABLE
      t == check_target(m)
  IN IF t.ret
       THEN LET c == check_chrome_path(chrome, action, t.target)
            IN IF c.ret
                 THEN Eff(<<Message(action, t.target, TRUE, css[2])>>,
                          <<Call("enable_custom_css", t.target, None, css)>>)
                 ELSE c.eff
       ELSE t.eff

send_enable_css_response(m, chrome, css) ==
  LET action == Actions.CSS_ENABLE
      t == check_target(m)
  IN IF t.ret
       THEN LET c == check_chrome_path(chrome, action, t.target)
            IN IF c.ret
                 THEN Eff(<<Message(action, t.target, css[1], css[2])>>,
                          <<Call("enable_custom_css", t.target, None, css)>>)
                 ELSE c.eff
       ELSE t.eff

send_disable_css_response(m, chrome, css) ==
  LET action == Actions.CSS_DISABLE
      t == check_target(m)
  IN IF t.ret
       THEN LET c == check_chrome_path(chrome, action, t.target)
            IN IF c.ret
                 THEN Eff(<<Message(action, t.target, css[1], css[2])>>,
                          <<Call("disable_custom_css", t.target, None, css)>>)
                 ELSE c.eff
       ELSE t.eff

send_font_size_response(m, chrome, css) ==
  LET action == Actions.CSS_FONT_SIZE
      t == check_target(m)
  IN IF t.ret
       THEN LET c == check_chrome_path(chrome, action, t.target)
            IN IF c.ret
                 THEN IF "size" \in DOMAIN m
                        THEN Eff(<<Message(action, m["size"], css[1], css[2])>>,
                                 <<Call("set_font_size", t.target, m["size"], css)>>)
                        ELSE NoEff
                 ELSE c.eff
       ELSE t.eff

\* mutant: an upstream theme-mode action is routed to send_theme_mode
dispatch_routes_theme_mode(m, chrome, pyw, css) ==
  LET action == m["action"]
  IN CASE action = Actions.VERSION       -> send_version
       [] action = Actions.COLORS        -> send_pywal_colors(pyw)
       [] action = Actions.CSS_ENABLE    -> send_enable_css_response(m, chrome, css)
       [] action = Actions.CSS_DISABLE   -> send_disable_css_response(m, chrome, css)
       [] action = Actions.CSS_FONT_SIZE -> send_font_size_response(m, chrome, css)
       [] action = Actions.THEME_MODE    -> send_theme_mode("dark")
       [] OTHER                          -> send_invalid_action

\* the body of handle_message's try block, for a message that has an action
dispatch(m, chrome, pyw, css) ==
  LET action == m["action"]
  IN CASE action = Actions.VERSION       -> send_version
       [] action = Actions.COLORS        -> send_pywal_colors(pyw)
       [] action = Actions.CSS_ENABLE    -> send_enable_css_response(m, chrome, css)
       [] action = Actions.CSS_DISABLE   -> send_disable_css_response(m, chrome, css)
       [] action = Actions.CSS_FONT_SIZE -> send_font_size_response(m, chrome, css)
       [] OTHER                          -> send_invalid_action

\* mutant: the KeyError of a missing action is swallowed without a reply
handle_message_silent_keyerror(m, chrome, pyw, css) ==
  IF "action" \notin DOMAIN m
    THEN NoEff
    ELSE dispatch(m, chrome, pyw, css)

handle_message(m, chrome, pyw, css) ==
  IF "action" \notin DOMAIN m
    THEN send_invalid_action                       \* except KeyError
    ELSE dispatch(m, chrome, pyw, css)

\* mutant: the update command is not routed
socket_thread_worker_drops_update(cmd, pyw) ==
  CASE cmd = COMMANDS.THEME_MODE_DARK  -> send_theme_mode("dark")
    [] cmd = COMMANDS.THEME_MODE_LIGHT -> send_theme_mode("light")
    [] cmd = COMMANDS.THEME_MODE_AUTO  -> send_theme_mode("auto")
    [] OTHER                           -> NoEff

\* mutant: theme-dark and theme-light are swapped
socket_thread_worker_swapped_modes(cmd, pyw) ==
  CASE cmd = COMMANDS.UPDATE           -> send_pywal_colors(pyw)
    [] cmd = COMMANDS.THEME_MODE_DARK  -> send_theme_mode("light")
    [] cmd = COMMANDS.THEME_MODE_LIGHT -> send_theme_mode("dark")
    [] cmd = COMMANDS.THEME_MODE_AUTO  -> send_theme_mode("auto")
    [] OTHER                           -> NoEff

\* mutant: an unknown command is answered upstream with invalid-action
socket_thread_worker_answers_unknown(cmd, pyw) ==
  CASE cmd = COMMANDS.UPDATE           -> send_pywal_colors(pyw)
    [] cmd = COMMANDS.THEME_MODE_DARK  -> send_theme_mode("dark")
    [] cmd = COMMANDS.THEME_MODE_LIGHT -> send_theme_mode("light")
    [] cmd = COMMANDS.THEME_MODE_AUTO  -> send_theme_mode("auto")
    [] OTHER                           -> send_invalid_action

\* one iteration of the body of socket_thread_worker's loop
socket_thread_worker(cmd, pyw) ==
  CASE cmd = COMMANDS.UPDATE           -> send_pywal_colors(pyw)
    [] cmd = COMMANDS.THEME_MODE_DARK  -> send_theme_mode("dark")
    [] cmd = COMMANDS.THEME_MODE_LIGHT -> send_theme_mode("light")
    [] cmd = COMMANDS.THEME_MODE_AUTO  -> send_theme_mode("auto")
    [] OTHER                           -> NoEff

\* ------------------------------------------------- upstream channel (stdout)
\* size of the serialized body, in units
BodyLen(m) ==
  2 + (IF m.data # None THEN 1 ELSE 0) + (IF m.message # None THEN 1 ELSE 0)

\* what reaches standard output, at the granularity of the framing: a length
\* prefix announcing n units, a body of n units, or text of a print call
LengthChunk(c, m) == [kind |-> "length", by |-> c, via |-> "send_message", n |-> BodyLen(m)]
BodyChunk(c, m)   == [kind |-> "body", by |-> c, via |-> "send_message", n |-> BodyLen(m)]
TextChunk(c)      == [kind |-> "text", by |-> c, via |-> "print", n |-> 1]

\* the upstream peer decodes the stream as it arrives: it reads a length
\* prefix, then a body of exactly that many units; anything else in the
\* stream desynchronises it for good
NewDecoder == [state |-> "length", need |-> 0, decoded |-> 0]

decode(d, chunk) ==
  CASE d.state = "length" /\ chunk.kind = "length" ->
         [d EXCEPT !.state = "body", !.need = chunk.n]
    [] d.state = "body" /\ chunk.kind = "body" /\ chunk.n = d.need ->
         [d EXCEPT !.state = "length", !.need = 0, !.decoded = d.decoded + 1]
    [] OTHER -> [d EXCEPT !.state = "desync", !.need = 0]

\* ------------------------------------------------------------------ Init
Init ==
  /\ chrome_path \in ChromePaths
  /\ is_running = FALSE
  /\ pc = [c \in Contexts |-> IF c = "main" THEN "init" ELSE "off"]
  /\ message = <<>>
  /\ command = None
  /\ outbox = [c \in Contexts |-> <<>>]
  /\ sent = [c \in Contexts |-> <<>>]
  /\ calls = [c \in Contexts |-> <<>>]
  /\ lock = "free"
  /\ stdout_writers = {}
  /\ upstream = NewDecoder
  /\ nsends = 0
  /\ local_out = <<>>
  /\ server_state = "new"
  /\ observer_state = "new"
  /\ server_closes = 0
  /\ observer_stops = 0
  /\ disconnected = FALSE
  /\ after_stop = 0
  /\ nmsg = 0 /\ ncmd = 0 /\ nev = 0 /\ ncloses = 0

\* one write call on standard output
Write(chunk) ==
  /\ stdout_writers' = stdout_writers \cup {chunk.via}
  /\ upstream' = decode(upstream, chunk)

\* a context starts handling an input whose effect is e
Begin(c, e) ==
  /\ outbox' = [outbox EXCEPT ![c] = e.out]
  /\ calls' = [calls EXCEPT ![c] = e.calls]
  /\ sent' = [sent EXCEPT ![c] = <<>>]
  /\ pc' = [pc EXCEPT ![c] = IF e.out = <<>> THEN "done" ELSE "send"]

\* mutant: the command thread is started whether or not the server started
Start_thread_regardless ==
  /\ pc["main"] = "init"
  /\ is_running' = TRUE
  /\ \E success \in BOOLEAN :
       /\ server_state' = IF success THEN "listening" ELSE "failed"
       /\ pc' = [pc EXCEPT !["main"] = "loop",
                           !["socket"] = "recv",
                           !["observer"] = "recv"]
  /\ observer_state' = "started"
  /\ UNCHANGED << chrome_path, message, command, outbox, sent, calls, lock,
                  stdout_writers, upstream, nsends, local_out, server_closes,
                  observer_stops, nmsg, ncmd, nev, ncloses, disconnected,
                  after_stop >>

\* Daemon.start up to the while loop
Start ==
  /\ pc["main"] = "init"
  /\ is_running' = TRUE
  /\ \E success \in BOOLEAN :
       /\ server_state' = IF success THEN "listening" ELSE "failed"
       /\ pc' = [pc EXCEPT !["main"] = "loop",
                           !["socket"] = IF success THEN "recv" ELSE "off",
                           !["observer"] = "recv"]
  /\ observer_state' = "started"
  /\ UNCHANGED << chrome_path, message, command, outbox, sent, calls, lock,
                  stdout_writers, upstream, nsends, local_out, server_closes, observer_stops,
                  nmsg, ncmd, nev, ncloses,
                  disconnected, after_stop >>

\* mutant: the loop does not test is_running (while True)
LoopTest_ignores_flag ==
  /\ pc["main"] = "loop"
  /\ pc' = [pc EXCEPT !["main"] = "recv"]
  /\ UNCHANGED << chrome_path, is_running, message, command, outbox, sent,
                  calls, lock, stdout_writers, upstream, nsends, local_out,
                  server_state, observer_state, server_closes, observer_stops,
                  nmsg, ncmd, nev, ncloses, disconnected, after_stop >>

\* `while self.is_running`
LoopTest ==
  /\ pc["main"] = "loop"
  /\ pc' = [pc EXCEPT !["main"] = IF is_running THEN "recv" ELSE "exited"]
  /\ UNCHANGED << chrome_path, is_running, message, command, outbox, sent,
                  calls, lock, stdout_writers, upstream, nsends, local_out, server_state, observer_state,
                  server_closes, observer_stops, nmsg, ncmd, nev, ncloses,
                  disconnected, after_stop >>

\* messenger.get_message() returns m; handle_message(m) runs up to its send
MainReceive ==
  /\ pc["main"] = "recv"
  /\ nmsg < MaxMessages
  /\ \E m \in InMessages :
       /\ message' = m
       /\ \E e \in { handle_message(m, chrome_path, pyw, css) :
                       pyw \in PywalResults, css \in CssResults } :
            Begin("main", e)
  /\ nmsg' = nmsg + 1
  /\ after_stop' = IF is_running THEN after_stop ELSE after_stop + 1
  /\ UNCHANGED << chrome_path, is_running, command, lock, stdout_writers, upstream, nsends, local_out,
                  server_state, observer_state, server_closes, observer_stops,
                  ncmd, nev, ncloses,
                  disconnected >>

\* socket_server.get_message() returns cmd; the loop body runs up to its send
SocketReceive ==
  /\ pc["socket"] = "recv"
  /\ server_state = "listening"
  /\ ncmd < MaxCommands
  /\ \E cmd \in CommandValues :
       /\ command' = cmd
       /\ \E e \in { socket_thread_worker(cmd, pyw) : pyw \in PywalResults } :
            Begin("socket", e)
  /\ ncmd' = ncmd + 1
  /\ UNCHANGED << chrome_path, is_running, message, lock, stdout_writers, upstream, nsends, local_out,
                  server_state, observer_state, server_closes, observer_stops,
                  nmsg, nev, ncloses,
                  disconnected, after_stop >>

\* ColorChangeHandler.on_modified: print, then the callback up to its send
OnModified ==
  /\ pc["observer"] = "recv"
  /\ observer_state = "started"
  /\ nev < MaxEvents
  /\ Write(TextChunk("observer"))
  /\ \E pyw \in PywalResults : Begin("observer", send_pywal_colors(pyw))
  /\ nev' = nev + 1
  /\ UNCHANGED << chrome_path, is_running, message, command, lock, nsends,
                  local_out, server_state, observer_state, server_closes,
                  observer_stops, nmsg, ncmd, ncloses,
                  disconnected, after_stop >>

\* messenger.send_message: take the send lock and write the length prefix
SendLength(c) ==
  /\ pc[c] = "send"
  /\ lock = "free"
  /\ lock' = c
  /\ Write(LengthChunk(c, Head(outbox[c])))
  /\ pc' = [pc EXCEPT ![c] = "write_body"]
  /\ UNCHANGED << chrome_path, is_running, message, command, outbox, sent,
                  calls, nsends, local_out, server_state, observer_state,
                  server_closes, observer_stops, nmsg, ncmd, nev, ncloses,
                  disconnected, after_stop >>

\* messenger.send_message: write the body, flush, release the lock, return
SendBody(c) ==
  /\ pc[c] = "write_body"
  /\ lock = c
  /\ Write(BodyChunk(c, Head(outbox[c])))
  /\ lock' = "free"
  /\ nsends' = nsends + 1
  /\ sent' = [sent EXCEPT ![c] = Append(sent[c], Head(outbox[c]))]
  /\ outbox' = [outbox EXCEPT ![c] = Tail(outbox[c])]
  /\ pc' = [pc EXCEPT ![c] = IF Tail(outbox[c]) = <<>> THEN "done" ELSE "send"]
  /\ UNCHANGED << chrome_path, is_running, message, command, calls,
                  local_out, server_state, observer_state, server_closes,
                  observer_stops, nmsg, ncmd, nev, ncloses,
                  disconnected, after_stop >>

\* mutant: a handler that returns clears is_running
Return_stops_daemon(c) ==
  /\ pc[c] = "done"
  /\ pc' = [pc EXCEPT ![c] = IF c = "main" THEN "loop" ELSE "recv"]
  /\ sent' = [sent EXCEPT ![c] = <<>>]
  /\ calls' = [calls EXCEPT ![c] = <<>>]
  /\ message' = IF c = "main" THEN <<>> ELSE message
  /\ command' = IF c = "socket" THEN None ELSE command
  /\ is_running' = FALSE
  /\ UNCHANGED << chrome_path, outbox, lock, stdout_writers,
                  upstream, nsends, local_out, server_state, observer_state,
                  server_closes, observer_stops, nmsg, ncmd, nev, ncloses,
                  disconnected, after_stop >>

\* the handler returns: back to the top of the context's loop (the loop's
\* local `message` is dead from here until the next get_message assigns it)
Return(c) ==
  /\ pc[c] = "done"
  /\ pc' = [pc EXCEPT ![c] = IF c = "main" THEN "loop" ELSE "recv"]
  /\ sent' = [sent EXCEPT ![c] = <<>>]
  /\ calls' = [calls EXCEPT ![c] = <<>>]
  /\ message' = IF c = "main" THEN <<>> ELSE message
  /\ command' = IF c = "socket" THEN None ELSE command
  /\ UNCHANGED << chrome_path, is_running, outbox, lock, stdout_writers,
                  upstream, nsends, local_out, server_state, observer_state,
                  server_closes, observer_stops, nmsg, ncmd, nev, ncloses,
                  disconnected, after_stop >>

\* the process ends: every thread that exists ends with it, and with the
\* threads their locals, their pending sends and the send lock
ProcessExit ==
  /\ pc' = [c \in Contexts |-> IF pc[c] \in {"off", "crashed"} THEN pc[c] ELSE "exited"]
  /\ message' = <<>>
  /\ command' = None
  /\ outbox' = [c \in Contexts |-> <<>>]
  /\ sent' = [c \in Contexts |-> <<>>]
  /\ calls' = [c \in Contexts |-> <<>>]
  /\ lock' = "free"

\* the threads go on as they are
SameThreads ==
  UNCHANGED << pc, message, command, outbox, sent, calls, lock >>

\* messenger.get_message() finds the channel closed by the peer: the read is
\* terminal and ends the process; nothing in Daemon.start reacts to it
Disconnect ==
  /\ pc["main"] = "recv"
  /\ ~disconnected
  /\ disconnected' = TRUE
  /\ ProcessExit
  /\ UNCHANGED << chrome_path, is_running, stdout_writers, upstream, nsends,
                  local_out, server_state, observer_state, server_closes,
                  observer_stops, after_stop, nmsg, ncmd, nev, ncloses >>

\* an exception raised while a command is read or handled (get_message, the
\* palette fetch or send_message raising): the loop of socket_thread_worker
\* has no try, the exception leaves it and the thread ends
SocketRaise ==
  /\ pc["socket"] = "recv"
  /\ server_state = "listening"
  /\ ncmd < MaxCommands
  /\ ncmd' = ncmd + 1
  /\ pc' = [pc EXCEPT !["socket"] = "crashed"]
  /\ UNCHANGED << chrome_path, is_running, message, command, outbox, sent, calls, lock,
                  stdout_writers, upstream, nsends, local_out, server_state,
                  observer_state, server_closes, observer_stops, disconnected,
                  after_stop, nmsg, nev, ncloses >>

\* mutant: close flips is_running instead of clearing it
Close_toggles_running(caller) ==
  /\ pc["main"] \notin {"init", "exited"}
  /\ ncloses < MaxCloses
  /\ ncloses' = ncloses + 1
  /\ is_running' = ~is_running
  /\ server_state' = "closed"
  /\ server_closes' = server_closes + 1
  /\ observer_state' = "stopped"
  /\ observer_stops' = observer_stops + 1
  /\ IF caller = "main" THEN ProcessExit ELSE SameThreads
  /\ UNCHANGED << chrome_path, stdout_writers, upstream, nsends, local_out,
                  nmsg, ncmd, nev, disconnected, after_stop >>

\* mutant: close does not stop the observer
Close_forgets_observer(caller) ==
  /\ pc["main"] \notin {"init", "exited"}
  /\ ncloses < MaxCloses
  /\ ncloses' = ncloses + 1
  /\ is_running' = FALSE
  /\ server_state' = "closed"
  /\ server_closes' = server_closes + 1
  /\ IF caller = "main" THEN ProcessExit ELSE SameThreads
  /\ UNCHANGED << chrome_path, stdout_writers, upstream, nsends, local_out,
                  observer_state, observer_stops, nmsg, ncmd, nev,
                  disconnected, after_stop >>

\* Daemon.close, called on the main thread (SystemExit ends the process,
\* the other threads are daemon threads) or on another thread (SystemExit
\* ends only that thread)
Close(caller) ==
  /\ pc["main"] \notin {"init", "exited"}
  /\ ncloses < MaxCloses
  /\ ncloses' = ncloses + 1
  /\ is_running' = FALSE
  /\ server_state' = "closed"
  /\ server_closes' = server_closes + 1
  /\ observer_state' = "stopped"
  /\ observer_stops' = observer_stops + 1
  /\ IF caller = "main" THEN ProcessExit ELSE SameThreads
  /\ UNCHANGED << chrome_path, stdout_writers, upstream, nsends, local_out,
                  nmsg, ncmd, nev, disconnected, after_stop >>

Next ==
  \/ Start
  \/ LoopTest
  \/ MainReceive
  \/ SocketReceive
  \/ OnModified
  \/ \E c \in Contexts : SendLength(c)
  \/ \E c \in Contexts : SendBody(c)
  \/ \E c \in Contexts : Return(c)
  \/ \E caller \in {"main", "other"} : Close(caller)
  \/ Disconnect
  \/ SocketRaise

Spec == Init /\ [][Next]_vars

TypeOK ==
  /\ chrome_path \in ChromePaths
  /\ is_running \in BOOLEAN
  /\ lock \in Contexts \cup {"free"}
  /\ pc \in [Contexts -> {"init", "off", "loop", "recv", "send", "write_body",
                          "done", "crashed", "exited"}]
  /\ disconnected \in BOOLEAN
  /\ after_stop \in 0..MaxMessages

\* ---------------------------------------------------------------- claims
InvalidAction == Message(Actions.INVALID_ACTION, None, FALSE, None)
TargetActions == {Actions.CSS_ENABLE, Actions.CSS_DISABLE, Actions.CSS_FONT_SIZE}
CssMutators   == {"enable_custom_css", "disable_custom_css", "set_font_size"}
KnownCommands == {COMMANDS[k] : k \in DOMAIN COMMANDS}

\* handle_message has returned for the upstream message held in `message`
Handled == pc["main"] = "done"
\* the command loop's body has finished for the command held in `command`
CommandHandled == pc["socket"] = "done"

HasAction(a) == "action" \in DOMAIN message /\ message["action"] = a
NeedsTarget  == "action" \in DOMAIN message /\ message["action"] \in TargetActions
HasTarget    == "target" \in DOMAIN message /\ message["target"] # ""
NoCssCall(c) == \A i \in DOMAIN calls[c] : calls[c][i].fn \notin CssMutators

\* C1: when handle_message returns, exactly one Message has been passed to
\* messenger.send_message, whatever the message and the chrome path.
C1_ExactlyOneReply ==
  Handled => Len(sent["main"]) = 1

\* C2: everything written to standard output was written by send_message.
C2_OnlySendWrites ==
  \A w \in stdout_writers : w = "send_message"

\* C3: the peer's decoder is never desynchronised, and whenever no send is
\* in progress it has decoded exactly as many Messages as sends completed.
C3_FramesIntact ==
  /\ upstream.state # "desync"
  /\ lock = "free" => upstream.decoded = nsends

\* C4: a message without an 'action' key gets exactly one reply, which is
\* invalid-action with success false, and no collaborator is called.
C4_MissingAction ==
  (Handled /\ "action" \notin DOMAIN message) =>
     /\ sent["main"] = <<InvalidAction>>
     /\ calls["main"] = <<>>

C4_Witness ==
  /\ Handled
  /\ "action" \notin DOMAIN message
  /\ "target" \in DOMAIN message
  /\ Len(sent["main"]) = 1

\* C5: css-enable, css-disable and css-font-size with an absent or empty
\* target are answered with invalid-action only, no CSS mutator is called,
\* and this does not depend on the chrome path.
C5_MissingTarget ==
  (Handled /\ NeedsTarget /\ ~HasTarget) =>
     /\ sent["main"] = <<InvalidAction>>
     /\ NoCssCall("main")

C5_Witness ==
  /\ Handled
  /\ HasAction(Actions.CSS_ENABLE)
  /\ "target" \in DOMAIN message /\ message["target"] = ""
  /\ chrome_path = ""
  /\ sent["main"] = <<InvalidAction>>

\* C6: with no chrome path, a css action with a non-empty target gets one
\* reply carrying the request's action, success false and the fixed
\* message, and no CSS mutator is called.
C6_NoChromePath ==
  (Handled /\ chrome_path = "" /\ NeedsTarget /\ HasTarget) =>
     /\ Len(sent["main"]) = 1
     /\ sent["main"][1].action = message["action"]
     /\ sent["main"][1].success = FALSE
     /\ sent["main"][1].message = "Could not find path to chrome folder"
     /\ NoCssCall("main")

C6_Witness ==
  /\ Handled
  /\ chrome_path = ""
  /\ HasAction(Actions.CSS_FONT_SIZE)
  /\ HasTarget
  /\ "size" \in DOMAIN message
  /\ Len(sent["main"]) = 1

\* C7: with a chrome path and a non-empty target, css-enable and css-disable
\* call their mutator once and reply with the request's action, the target
\* as data and the mutator's (success, message) unchanged; css-font-size with
\* a size calls set_font_size once and copies its (success, message).
C7_ResultPropagated ==
  (Handled /\ chrome_path # "" /\ NeedsTarget /\ HasTarget) =>
     /\ message["action"] = Actions.CSS_ENABLE =>
          /\ Len(calls["main"]) = 1
          /\ calls["main"][1].fn = "enable_custom_css"
          /\ calls["main"][1].target = message["target"]
          /\ sent["main"] = <<Message(Actions.CSS_ENABLE, message["target"],
                                      calls["main"][1].ret[1], calls["main"][1].ret[2])>>
     /\ message["action"] = Actions.CSS_DISABLE =>
          /\ Len(calls["main"]) = 1
          /\ calls["main"][1].fn = "disable_custom_css"
          /\ calls["main"][1].target = message["target"]
          /\ sent["main"] = <<Message(Actions.CSS_DISABLE, message["target"],
                                      calls["main"][1].ret[1], calls["main"][1].ret[2])>>
     /\ (message["action"] = Actions.CSS_FONT_SIZE /\ "size" \in DOMAIN message) =>
          /\ Len(calls["main"]) = 1
          /\ calls["main"][1].fn = "set_font_size"
          /\ Len(sent["main"]) = 1
          /\ sent["main"][1].action = Actions.CSS_FONT_SIZE
          /\ sent["main"][1].success = calls["main"][1].ret[1]
          /\ sent["main"][1].message = calls["main"][1].ret[2]

C7_Witness ==
  /\ Handled
  /\ chrome_path # ""
  /\ HasAction(Actions.CSS_ENABLE)
  /\ "target" \in DOMAIN message /\ message["target"] = "foo.css"
  /\ sent["main"] = <<Message("css-enable", "foo.css", TRUE, "css done")>>

\* C8: an update command yields exactly one colors-query Message upstream,
\* carrying the palette fetch's result, and nothing on the local channel.
C8_UpdateCommand ==
  (CommandHandled /\ command = COMMANDS.UPDATE) =>
     /\ Len(sent["socket"]) = 1
     /\ sent["socket"][1].action = Actions.COLORS
     /\ local_out = <<>>

C8_Witness ==
  /\ CommandHandled
  /\ command = COMMANDS.UPDATE
  /\ Len(sent["socket"]) = 1
  /\ nsends >= 1

ModeOf(cmd) ==
  CASE cmd = "theme-dark"  -> "dark"
    [] cmd = "theme-light" -> "light"
    [] cmd = "theme-auto"  -> "auto"

\* C9: theme-dark, theme-light and theme-auto each yield exactly one upstream
\* Message: action theme-mode, success true, data the mode string.
C9_ThemeCommand ==
  (CommandHandled /\ command \in {"theme-dark", "theme-light", "theme-auto"}) =>
     /\ sent["socket"] = <<Message("theme-mode", ModeOf(command), TRUE, None)>>
     /\ calls["socket"] = <<>>

C9_Witness ==
  /\ CommandHandled
  /\ command = "theme-light"
  /\ Len(sent["socket"]) = 1
  /\ sent["socket"][1].data = "light"

\* C10: a command outside the vocabulary sends nothing upstream, calls no
\* collaborator, and the command thread's next step is back to get_message.
C10_UnknownCommandIgnored ==
  [][ (CommandHandled /\ command \notin KnownCommands) =>
        /\ sent["socket"] = <<>>
        /\ outbox["socket"] = <<>>
        /\ calls["socket"] = <<>>
        /\ local_out = <<>>
        /\ pc["socket"] # pc'["socket"] =>
             \/ pc'["socket"] = "recv"
             \/ pc'["socket"] = "exited" /\ pc'["main"] = "exited" ]_vars

C10_Witness ==
  /\ CommandHandled
  /\ command = "bogus-command"
  /\ server_state = "listening"
  /\ nsends = 0

\* C11: once the upstream peer has disconnected, the daemon is stopped and
\* the command server's close and the watcher's stop have each run once.
C11_DisconnectClosesOnce ==
  disconnected =>
     /\ ~is_running
     /\ server_closes = 1
     /\ observer_stops = 1

\* C12: no error raised while a command is read or handled ends the
\* command thread's loop.
C12_CommandLoopSurvives ==
  pc["socket"] # "crashed"

\* C13: every Message passed to send_message has an action of the
\* vocabulary, and success false only together with a message text.
C13_OutboundWellFormed ==
  \A c \in Contexts : \A i \in DOMAIN sent[c] :
     /\ sent[c][i].action \in ActionValues
     /\ sent[c][i].success = FALSE => sent[c][i].message # None

\* C14: when socket_server.start() fails no command thread exists, the
\* observer is started, the main loop runs, and an upstream message gets the
\* reply and the collaborator calls handle_message gives it.
C14_ServerStartFailed ==
  server_state = "failed" =>
     /\ pc["socket"] = "off"
     /\ observer_state = "started"
     /\ is_running
     /\ pc["main"] = "exited" => disconnected
     /\ Handled =>
          \E pyw \in PywalResults, css \in CssResults :
             /\ sent["main"] = handle_message(message, chrome_path, pyw, css).out
             /\ calls["main"] = handle_message(message, chrome_path, pyw, css).calls

C14_Witness ==
  /\ server_state = "failed"
  /\ Handled
  /\ HasAction(Actions.VERSION)
  /\ sent["main"] = <<Message("version-query", DAEMON_VERSION, TRUE, None)>>

C16_CloseTwice ==
  ncloses >= 1 =>
     /\ ~is_running
     /\ server_state = "closed"
     /\ observer_state = "stopped"
     /\ server_closes = ncloses
     /\ observer_stops = ncloses

C16_Witness ==
  /\ ncloses = 2
  /\ server_closes = 2
  /\ observer_stops = 2
  /\ pc["main"] = "recv"

DispatchedActions ==
  {Actions.VERSION, Actions.COLORS, Actions.CSS_ENABLE, Actions.CSS_DISABLE,
   Actions.CSS_FONT_SIZE}

\* C17: an upstream action outside the five dispatched ones (theme-mode and
\* output included) is answered with invalid-action only, and the main loop
\* never sends a theme-mode Message.
C17_UnknownAction ==
  /\ (Handled /\ "action" \in DOMAIN message
              /\ message["action"] \notin DispatchedActions) =>
        /\ sent["main"] = <<InvalidAction>>
        /\ calls["main"] = <<>>
  /\ \A i \in DOMAIN sent["main"] : sent["main"][i].action # Actions.THEME_MODE
  /\ \A i \in DOMAIN outbox["main"] : outbox["main"][i].action # Actions.THEME_MODE

C17_Witness ==
  /\ Handled
  /\ HasAction(Actions.THEME_MODE)
  /\ sent["main"] = <<InvalidAction>>

ColorsReply(call) == Message(Actions.COLORS, call.ret[2], call.ret[1], call.ret[3])

\* C18: a file-modification event makes one get_pywal_colors call and one
\* colors-query Message carrying its (success, data, message); the Message
\* stays pending while the lock is taken and is sent; a failed fetch does
\* not stop the daemon.
C18_WatchEvent ==
  /\ pc["observer"] \in {"send", "write_body"} =>
        /\ Len(calls["observer"]) = 1
        /\ outbox["observer"] = <<ColorsReply(calls["observer"][1])>>
  /\ pc["observer"] = "done" =>
        /\ Len(calls["observer"]) = 1
        /\ calls["observer"][1].fn = "get_pywal_colors"
        /\ sent["observer"] = <<ColorsReply(calls["observer"][1])>>
        /\ outbox["observer"] = <<>>
        /\ ncloses = 0 => (is_running /\ pc["main"] # "exited")

C18_Witness ==
  /\ pc["observer"] = "done"
  /\ sent["observer"] = <<Message("colors-query", None, FALSE, "no colors file")>>
  /\ nsends >= 2
  /\ is_running

\* C19: after is_running became false the main loop dispatches at most one
\* more upstream message, and having dispatched it never receives again.
C19_AtMostOneAfterStop ==
  /\ after_stop <= 1
  /\ (pc["main"] = "recv" /\ ~is_running) => after_stop = 0

C19_Witness ==
  /\ after_stop = 1
  /\ ncloses = 1
  /\ pc["main"] = "exited"

\* C20: chrome_path never changes, and is_running changes only in start()
\* and close(): no handler of a message, a command or a watch event writes
\* either.
C20_HandlersKeepState ==
  [][ /\ chrome_path' = chrome_path
      /\ is_running' # is_running =>
           (pc["main"] = "init" \/ ncloses' = ncloses + 1) ]_vars

C20_Witness ==
  /\ nmsg = 1 /\ ncmd = 1 /\ nev = 1
  /\ nsends = 3
  /\ ncloses = 0
  /\ is_running
  /\ \A c \in Contexts : pc[c] = "recv"
====
